---- MODULE Spec2Model ----
(***************************************************************************)
(* kube-nvidia-get-processes.py: main() as a state machine.                *)
(*                                                                         *)
(* A run has three phases inside one try/finally: the scan of every        *)
(* container of every ready pod (lines 180-256), the probe of every node   *)
(* that owns a GpuContainer (lines 258-396) and the termination of the     *)
(* long-lived exec channels (lines 397-407); the table is built after it   *)
(* (lines 413-422).  Answers of the cluster (exec results, API errors,     *)
(* random strings) are inputs of the actions.                              *)
(*                                                                         *)
(* Strings the code takes apart are sequences of pieces: a marker key is   *)
(* the 6-tuple of its '|' separated fields, a host command line is the     *)
(* sequence of its shlex words, a word is a sequence of pieces.            *)
(***************************************************************************)
EXTENDS Integers, Sequences, FiniteSets, TLC

VARIABLES
    pod_list,                   \* pod_list.items (line 169)
    pc,                         \* position of main()
    pod_i, cont_i,              \* the two loop positions of the scan
    probed,                     \* the containers the scan has run its commands in
    scan,                       \* what the cluster answered in the last of them
    gpu_containers,             \* line 171
    gpu_node_to_containers_map, \* line 172: <<node, <<container index, ...>>>> in key order
    gpu_containers_map,         \* line 173: key -> index into gpu_containers
    exec_processes,             \* line 175: <<[key, resp], ...>> in key order
    channels,                   \* every exec stream begin_exec has returned (resp = its index)
    node_i,                     \* position of the node loop (line 258)
    clean_i,                    \* position of the loop of the finally block (line 400)
    node_pod_name,              \* line 260
    probe_pods,                 \* probe pods this run has created and not deleted
    created,                    \* the nodes of the probe pods this run has created
    conflicts,                  \* 409 answers to the create, during the node's turn
    polls,                      \* Pending answers to the status read, during its loop
    last,                       \* the last call of the node loop and its answer
    stdout,                     \* output of the host walk (line 324), until the next step
    pending,                    \* what travels through the finally block
    exit_status,                \* status of the process once it has ended
    table                       \* line 414, without the header row

vars == <<pod_list, pc, pod_i, cont_i, probed, scan, gpu_containers,
          gpu_node_to_containers_map,
          gpu_containers_map, exec_processes, channels, node_i, clean_i, node_pod_name,
          probe_pods, created, conflicts, polls, last, stdout, pending, exit_status,
          table>>

----------------------------------------------------------------------------
(* Bounds of the model *)

NumPods == 2
MaxRows == 2
MaxLines == 3
MaxConflicts == 2
MaxPolls == 1

----------------------------------------------------------------------------
(* Values *)

NoPid == 0
NoStr == "<None>"
GPU_CHECK_PROC_PREFIX == "X-GPUPROC"

\* int(): the digit strings of the model and their values; any other string
\* raises ValueError
IntTable ==
    ("1" :> 1) @@ ("2" :> 2) @@ ("7" :> 7) @@ ("8" :> 8) @@ ("1234" :> 1234) @@ ("9999" :> 9999)
    @@ ("4321" :> 4321) @@ ("8765" :> 8765)
    @@ ("501" :> 501) @@ ("502" :> 502) @@ ("503" :> 503) @@ ("504" :> 504)

IsInt(s) == s \in DOMAIN IntTable
IntOf(s) == IntTable[s]

EmptyMap == [k \in {} |-> 0]

Range(s) == {s[i] : i \in DOMAIN s}

SeqsUpTo(S, n) == UNION {[1..k -> S] : k \in 0..n}

----------------------------------------------------------------------------
(* The cluster: what pods.get(field_selector='status.phase=Running') returns *)

\* a pod name is unique in its namespace, a container name in its pod
PodNames == <<"p1", "p1", "p2", "p2">>
PodNamespaces == <<"ns1", "ns2", "ns1", "ns2">>
PodNode(p) == IF p % 2 = 1 THEN "n1" ELSE "n2"
PodContainers(p) == IF p = 1 THEN <<"c1", "c2">> ELSE <<"c1">>

\* pod.status.containerStatuses: None (has = FALSE) or one ready flag per container
StatusChoices(p) ==
    {[has |-> FALSE, ready |-> <<>>]}
    \cup {[has |-> TRUE, ready |-> r] : r \in [1..Len(PodContainers(p)) -> BOOLEAN]}

Pod(p, st) ==
    [name |-> PodNames[p], namespace |-> PodNamespaces[p], nodeName |-> PodNode(p),
     containers |-> PodContainers(p), containerStatuses |-> st]

PodLists ==
    {pl \in [1..NumPods -> UNION {{Pod(p, st) : st \in StatusChoices(p)} : p \in 1..NumPods}] :
        \A p \in 1..NumPods : pl[p] \in {Pod(p, st) : st \in StatusChoices(p)}}

\* a readiness that does not look at the flags, to try C20 against
k8s_pod_ready_any(pod) == pod.containerStatuses.has

k8s_pod_ready(pod) ==
    /\ pod.containerStatuses.has
    /\ \A i \in DOMAIN pod.containerStatuses.ready : pod.containerStatuses.ready[i]

\* randstr(): the random strings of a run
Nonces == {"r1"}

----------------------------------------------------------------------------
(* k8s_exec: what a command run in a container answers.  exc: the call raised;
   otherwise (stdout, rc).                                                   *)

ExecRaises == [exc |-> TRUE, rc |-> 1, out |-> <<>>]
ExecResults(outputs) ==
    {ExecRaises, [exc |-> FALSE, rc |-> 1, out |-> <<>>]}
    \cup {[exc |-> FALSE, rc |-> 0, out |-> o] : o \in outputs}

\* nvidia-smi --format=csv,noheader: a line is its comma separated fields, every
\* field but the first padded with a blank
SmiLine(row) == [j \in 1..Len(row) |-> [pad |-> j > 1, txt |-> row[j]]]
Strip(f) == f.txt
\* lines 202-206
ParseCsv(out) == [i \in DOMAIN out |-> [j \in DOMAIN out[i] |-> Strip(out[i][j])]]

RowA == <<"gpuA", "pci1", "1234", "procX", "500MiB">>
RowB == <<"gpuB", "pci2", "1234", "procX", "300MiB">>
Row9 == <<"gpuA", "pci1", "9999", "procZ", "100MiB">>

\* what nvidia-smi prints in the containers of the scan
SmiOutputs == {<<>>, <<SmiLine(RowA)>>}

\* the container /proc scan: a line is what split('\t', maxsplit=1) makes of it,
\* a path is the directory it starts with and the rest
ProcPath(name) == [dir |-> "/proc/", name |-> name]
CLine(name, cmdline) == <<ProcPath(name), cmdline>>
NoTabLine == <<[dir |-> "", name |-> "val"]>>

\* a line whose path does not start with /proc/
BadDirLine == <<[dir |-> "", name |-> "proc"], "x">>

\* what the /proc scan of a container prints: its processes among lines of a
\* path that is no number or not under /proc/, or its processes around a line
\* with no tab in it (the rest of a command line that has a newline in it)
ProcOutputs ==
    {<<CLine("7", "procX"), BadDirLine, CLine("8", "procY"), CLine("self", "sh")>>,
     <<CLine("7", "procX"), NoTabLine, CLine("8", "procY")>>}

ContainerProcess(pid, cmdline) ==
    [pid |-> pid, cmdline |-> cmdline, host_pid |-> NoPid, gpu_name |-> NoStr,
     gpu_used_memory |-> NoStr, gpu_pci_address |-> NoStr]

\* lines 214-227: the processes of the lines read so far, or raised (a line
\* that does not split in two makes the unpacking raise ValueError)
RECURSIVE ParseContainerProcs(_, _)
ParseContainerProcs(lines, acc) ==
    IF lines = <<>> THEN [raised |-> FALSE, procs |-> acc]
    ELSE LET line == Head(lines) IN
         IF Len(line) # 2 THEN [raised |-> TRUE, procs |-> acc]
         ELSE IF line[1].dir # "/proc/" THEN ParseContainerProcs(Tail(lines), acc)
         ELSE IF ~IsInt(line[1].name) THEN ParseContainerProcs(Tail(lines), acc)
         ELSE ParseContainerProcs(Tail(lines),
                  Append(acc, ContainerProcess(IntOf(line[1].name), line[2])))

GpuContainer(pod, cname, rows, procs) ==
    [pod_name |-> pod.name, pod_namespace |-> pod.namespace, container_name |-> cname,
     node_name |-> pod.nodeName, gpu_usage_list |-> rows, processes |-> procs,
     host_pid_ns |-> NoStr]

\* a key without the container name, to try C10 against
MakeKeyNoContainer(rnd, pod_name, pod_namespace, pod_node_name, cname) ==
    <<GPU_CHECK_PROC_PREFIX, rnd, pod_name, pod_namespace, pod_node_name, "">>

\* lines 238-240: '{}|{}|{}|{}|{}|{}'.format(...), as the tuple of its fields
MakeKey(rnd, pod_name, pod_namespace, pod_node_name, cname) ==
    <<GPU_CHECK_PROC_PREFIX, rnd, pod_name, pod_namespace, pod_node_name, cname>>

\* d[key] = value of a dict kept as the sequence of its items
DictPut(d, key, value) ==
    IF \E i \in DOMAIN d : d[i].key = key
    THEN [i \in DOMAIN d |-> IF d[i].key = key THEN [key |-> key, resp |-> value] ELSE d[i]]
    ELSE Append(d, [key |-> key, resp |-> value])

\* gpu_containers_map[key] = gpu_container
MapPut(m, key, idx) == (key :> idx) @@ m

\* a node map that is a list of pairs, one for each container, to try C21
\* against
NodeMapAppendPair(m, node, idx) == Append(m, [node |-> node, containers |-> <<idx>>])

\* gpu_node_to_containers_map[node].append(gpu_container), a defaultdict(list)
NodeMapAppend(m, node, idx) ==
    IF \E i \in DOMAIN m : m[i].node = node
    THEN [i \in DOMAIN m |->
            IF m[i].node = node
            THEN [node |-> node, containers |-> Append(m[i].containers, idx)]
            ELSE m[i]]
    ELSE Append(m, [node |-> node, containers |-> <<idx>>])

\* an exec stream as the cluster sees it, with the calls of the finally block
\* on it: tries counts the turns of the loop of line 400 for it, writes the
\* write_stdin calls and ends the k8s_end_exec calls that returned
NewChannel(key) == [key |-> key, open |-> TRUE, tries |-> 0, writes |-> 0, ends |-> 0]

----------------------------------------------------------------------------
(* The host /proc walk of a node and its three passes, lines 324-390 *)

\* a line of the walk is what split('\t') makes of it: the path, the PID
\* namespace, the NSpid line and the command line; a command line is the
\* sequence of its shlex words and a word the sequence of its pieces
NsPid(vals) == [label |-> "NSpid:", vals |-> vals]
HostLine(name, pid_ns, vals, cmdline) == <<ProcPath(name), pid_ns, NsPid(vals), cmdline>>

\* the argv of sh -c "echo '<key>' && read val" as /proc shows it
MarkerCmd(key) == <<<<"sh">>, <<"-c">>, <<"echo">>, key, <<"&&">>, <<"read">>, <<"val">>>>

\* line 358: GPU_CHECK_PROC_PREFIX in cmdline
ContainsPrefix(cmdline) ==
    \E i \in DOMAIN cmdline : \E j \in DOMAIN cmdline[i] : cmdline[i][j] = GPU_CHECK_PROC_PREFIX

\* lines 359-363: the first word that starts with the prefix, <<>> for None
RECURSIVE FirstKey(_)
FirstKey(cmdline) ==
    IF cmdline = <<>> THEN <<>>
    ELSE IF Head(cmdline) # <<>> /\ Head(cmdline)[1] = GPU_CHECK_PROC_PREFIX THEN Head(cmdline)
    ELSE FirstKey(Tail(cmdline))

PassState(gcs) == [raised |-> FALSE, gcs |-> gcs, nsmap |-> EmptyMap, hpi |-> <<>>]

\* a check of the NSpid entries that lets every line through, to try C22
\* against
FirstEntryAny(pid, nspid_list) == TRUE

\* line 350: the first NSpid entry is the PID the /proc path was read under
FirstEntryIsPid(pid, nspid_list) == pid = nspid_list[1]

\* lines 329-371, the first pass: st is the state of the loop before the
\* lines that are left
RECURSIVE ParseHostLines(_, _, _)
ParseHostLines(lines, gmap, st) ==
    IF lines = <<>> THEN st
    ELSE
    LET line == Head(lines)
        skip == ParseHostLines(Tail(lines), gmap, st)
        raise == [st EXCEPT !.raised = TRUE]
    IN
    IF Len(line) # 4 THEN raise                               \* ValueError, line 330
    ELSE IF line[1].dir # "/proc/" THEN skip
    ELSE IF ~IsInt(line[1].name) THEN skip
    ELSE IF line[3].label # "NSpid:" THEN skip
    ELSE IF \E i \in DOMAIN line[3].vals : ~IsInt(line[3].vals[i]) THEN skip
    ELSE IF line[3].vals = <<>> THEN raise                    \* IndexError, line 350
    ELSE
    LET pid == IntOf(line[1].name)
        pid_ns == line[2]
        nspid_list == [i \in DOMAIN line[3].vals |-> IntOf(line[3].vals[i])]
        cmdline == line[4]
        pid_in_container == IF Len(nspid_list) > 1 THEN nspid_list[2] ELSE NoPid
        pinfo == [pid |-> pid, pid_ns |-> pid_ns, pid_in_container |-> pid_in_container,
                  cmdline |-> cmdline]
        container_key == FirstKey(cmdline)
    IN
    IF ~FirstEntryIsPid(pid, nspid_list) THEN skip
    ELSE IF ~ContainsPrefix(cmdline)
         THEN ParseHostLines(Tail(lines), gmap, [st EXCEPT !.hpi = Append(@, pinfo)])
    ELSE IF container_key = <<>> THEN raise                   \* line 365
    ELSE IF container_key \notin DOMAIN gmap THEN raise       \* None.host_pid_ns, line 369
    ELSE ParseHostLines(Tail(lines), gmap,
             [st EXCEPT !.gcs[gmap[container_key]].host_pid_ns = pid_ns,
                        !.nsmap = (pid_ns :> gmap[container_key]) @@ @,
                        !.hpi = Append(@, pinfo)])

\* lines 377-380: the first process with that PID gets the host PID
RECURSIVE SetHostPid(_, _, _)
SetHostPid(procs, pid_in_container, pid) ==
    IF procs = <<>> THEN <<>>
    ELSE IF pid_in_container # NoPid /\ Head(procs).pid = pid_in_container
         THEN <<[Head(procs) EXCEPT !.host_pid = pid]>> \o Tail(procs)
    ELSE <<Head(procs)>> \o SetHostPid(Tail(procs), pid_in_container, pid)

\* a second pass that looks for the PID in every container, whatever the
\* namespace of the host process, to try C18 against
RECURSIVE CorrelatePidsAnyNs(_, _, _)
CorrelatePidsAnyNs(hpi, nsmap, gcs) ==
    IF hpi = <<>> THEN gcs
    ELSE CorrelatePidsAnyNs(Tail(hpi), nsmap,
             [g \in DOMAIN gcs |->
                 [gcs[g] EXCEPT !.processes =
                     SetHostPid(@, Head(hpi).pid_in_container, Head(hpi).pid)]])

\* lines 373-380, the second pass
RECURSIVE CorrelatePids(_, _, _)
CorrelatePids(hpi, nsmap, gcs) ==
    IF hpi = <<>> THEN gcs
    ELSE LET pinfo == Head(hpi) IN
         IF pinfo.pid_ns \in DOMAIN nsmap
         THEN CorrelatePids(Tail(hpi), nsmap,
                  [gcs EXCEPT ![nsmap[pinfo.pid_ns]].processes =
                      SetHostPid(@, pinfo.pid_in_container, pinfo.pid)])
         ELSE CorrelatePids(Tail(hpi), nsmap, gcs)

\* a join that leaves the used memory out, to try C2 against
JoinRowPartial(procs, gpu_usage) ==
    [i \in DOMAIN procs |->
        IF procs[i].host_pid # NoPid /\ procs[i].host_pid = IntOf(gpu_usage[3])
        THEN [procs[i] EXCEPT !.gpu_name = gpu_usage[1], !.gpu_pci_address = gpu_usage[2]]
        ELSE procs[i]]

\* a join that keeps the fields a process already has, to try C4 against
JoinRowFirst(procs, gpu_usage) ==
    [i \in DOMAIN procs |->
        IF /\ procs[i].host_pid # NoPid /\ procs[i].host_pid = IntOf(gpu_usage[3])
           /\ procs[i].gpu_used_memory = NoStr
        THEN [procs[i] EXCEPT !.gpu_name = gpu_usage[1],
                              !.gpu_pci_address = gpu_usage[2],
                              !.gpu_used_memory = gpu_usage[5]]
        ELSE procs[i]]

\* a join that gives the row to every process with a host PID, to try C5 against
JoinRowAny(procs, gpu_usage) ==
    [i \in DOMAIN procs |->
        IF procs[i].host_pid # NoPid
        THEN [procs[i] EXCEPT !.gpu_name = gpu_usage[1],
                              !.gpu_pci_address = gpu_usage[2],
                              !.gpu_used_memory = gpu_usage[5]]
        ELSE procs[i]]

\* lines 386-390: every process with that host PID gets the fields of the row
JoinRow(procs, gpu_usage) ==
    [i \in DOMAIN procs |->
        IF procs[i].host_pid # NoPid /\ procs[i].host_pid = IntOf(gpu_usage[3])
        THEN [procs[i] EXCEPT !.gpu_name = gpu_usage[1],
                              !.gpu_pci_address = gpu_usage[2],
                              !.gpu_used_memory = gpu_usage[5]]
        ELSE procs[i]]

\* lines 382-390, the third pass, from row r of container g on: a row that is
\* not five fields, or whose PID is no integer, raises ValueError
RECURSIVE JoinGpuUsage(_, _, _)
JoinGpuUsage(gcs, g, r) ==
    IF g > Len(gcs) THEN [raised |-> FALSE, gcs |-> gcs]
    ELSE IF r > Len(gcs[g].gpu_usage_list) THEN JoinGpuUsage(gcs, g + 1, 1)
    ELSE LET gpu_usage == gcs[g].gpu_usage_list[r] IN
         IF Len(gpu_usage) # 5 \/ ~IsInt(gpu_usage[3]) THEN [raised |-> TRUE, gcs |-> gcs]
         ELSE JoinGpuUsage([gcs EXCEPT ![g].processes = JoinRow(@, gpu_usage)], g, r + 1)

\* lines 327-390: what the passes make of the output of the walk
HostPass(lines, gmap, gcs) ==
    LET first == ParseHostLines(lines, gmap, PassState(gcs)) IN
    IF first.raised THEN [raised |-> TRUE, gcs |-> first.gcs]
    ELSE JoinGpuUsage(CorrelatePids(first.hpi, first.nsmap, first.gcs), 1, 1)

----------------------------------------------------------------------------
(* What the walk of a node prints *)

MarkerPids == <<"501", "502", "503", "504">>
ProcPids == <<"1234", "9999", "4321", "8765">>
NsNames == <<"pid:[1]", "pid:[2]", "pid:[3]", "pid:[4]">>

\* the keys of the channels that are open in containers of the node
NodeKeys(node) ==
    LET on == SelectSeq(exec_processes, LAMBDA e : e.key[5] = node /\ channels[e.resp].open)
    IN [i \in DOMAIN on |-> on[i].key]

\* a malformed line: a command line with a tab in it splits in five
TabLine == <<ProcPath("1"), "pid:[0]", NsPid(<<"1">>), <<<<"init">>>>, <<<<"x">>>>>>

\* the host as it is: the marker process of the j-th channel in its own PID
\* namespace, and the process the container sees as 7
RECURSIVE TrueLines(_, _)
TrueLines(keys, j) ==
    IF j > Len(keys) THEN <<>>
    ELSE <<HostLine(MarkerPids[j], NsNames[j], <<MarkerPids[j], "1">>, MarkerCmd(keys[j])),
           HostLine(ProcPids[j], NsNames[j], <<ProcPids[j], "7">>, <<<<"procX">>>>)>>
         \o TrueLines(keys, j + 1)

TrueDump(node) == <<HostLine("self", "pid:[0]", <<"1">>, <<<<"sh">>>>)>> \o TrueLines(NodeKeys(node), 1)

WalkOutputs(node) == {TrueDump(node), TrueDump(node) \o <<TabLine>>}

----------------------------------------------------------------------------
(* The scan phase, lines 180-256 *)

\* how a k8s_exec call ended
Outcome(res) == IF res.exc THEN "raise" ELSE IF res.rc = 0 THEN "rc0" ELSE "rc1"

\* no container iteration: the answers of a command that was not run are "none"
NoScan == [smi |-> "none", rows |-> <<>>, ps |-> "none", lines |-> <<>>, open |-> "none"]

\* lines 197-247: what an iteration of the container loop got from the
\* cluster: the end of nvidia-smi and its rows (line 197), the end of the /proc
\* scan and its lines, run when nvidia-smi exited zero (line 211), and the end
\* of k8s_begin_exec, called when the container was registered (line 244)
ScanAnswers(smi, ps, registers, opened) ==
    LET smi_ok == ~smi.exc /\ smi.rc = 0
        ps_ok == smi_ok /\ ~ps.exc /\ ps.rc = 0
    IN [smi |-> Outcome(smi),
        rows |-> IF smi_ok THEN ParseCsv(smi.out) ELSE <<>>,
        ps |-> IF smi_ok THEN Outcome(ps) ELSE "none",
        lines |-> IF ps_ok THEN ps.out ELSE <<>>,
        open |-> IF registers THEN (IF opened THEN "ok" ELSE "raise") ELSE "none"]

\* a scan that goes to the node loop as soon as a node has a container, to
\* try C17 against
ScanNextEager(p, c, nodemap) ==
    LET lastc == c >= Len(pod_list[p].containers)
        np == IF lastc THEN p + 1 ELSE p
    IN /\ pod_i' = np
       /\ cont_i' = IF lastc THEN 1 ELSE c + 1
       /\ pc' = IF nodemap # <<>> THEN "delete_stale"
                ELSE IF np <= Len(pod_list) THEN "scan" ELSE "cleanup"

\* a scan that leaves the pod at the first container, to try C8 against
ScanNextPod(p, c, nodemap) ==
    /\ pod_i' = p + 1
    /\ cont_i' = 1
    /\ pc' = IF p + 1 <= Len(pod_list) THEN "scan"
             ELSE IF nodemap = <<>> THEN "cleanup" ELSE "delete_stale"

\* the position after container c of pod p, and where main() goes when the
\* pod loop is over: the node loop (line 258), or the finally block when no
\* node owns a container.  The except clause of line 254 is inside the
\* container loop: whether the iteration raised changes nothing here
ScanNext(p, c, nodemap) ==
    LET lastc == c >= Len(pod_list[p].containers)
        np == IF lastc THEN p + 1 ELSE p
    IN /\ pod_i' = np
       /\ cont_i' = IF lastc THEN 1 ELSE c + 1
       /\ pc' = IF np <= Len(pod_list) THEN "scan"
                ELSE IF nodemap = <<>> THEN "cleanup" ELSE "delete_stale"

\* a registration that asks for a usage row, to try C19 against
RegistersWithRows(smi, ps, parsed) ==
    /\ ~smi.exc /\ smi.rc = 0 /\ ParseCsv(smi.out) # <<>>
    /\ ~ps.exc /\ ps.rc = 0
    /\ ~parsed.raised

\* lines 197-235: the iteration gets as far as the GpuContainer: both
\* commands returned and exited zero (lines 199, 213) and no line of the
\* /proc scan raised (line 216)
Registers(smi, ps, parsed) ==
    /\ ~smi.exc /\ smi.rc = 0
    /\ ~ps.exc /\ ps.rc = 0
    /\ ~parsed.raised

\* lines 185-187
ScanPodNotReady ==
    /\ pc = "scan"
    /\ ~k8s_pod_ready(pod_list[pod_i])
    /\ ScanNext(pod_i, Len(pod_list[pod_i].containers), gpu_node_to_containers_map)
    /\ UNCHANGED <<pod_list, created, probed, scan, gpu_containers, gpu_node_to_containers_map,
                   gpu_containers_map, exec_processes, channels, node_i, clean_i,
                   node_pod_name, probe_pods, conflicts, polls, last, stdout, pending,
                   exit_status, table>>

\* lines 189-256: one container of a ready pod.  smi and ps are the answers of
\* the two k8s_exec calls, rnd is randstr(), opened is whether k8s_begin_exec
\* returned a stream or raised
ScanContainer ==
    /\ pc = "scan"
    /\ k8s_pod_ready(pod_list[pod_i])
    /\ \E smi \in ExecResults(SmiOutputs), ps \in ExecResults(ProcOutputs),
          rnd \in Nonces, opened \in BOOLEAN :
        LET pod == pod_list[pod_i]
            cname == pod.containers[cont_i]
            rows == ParseCsv(smi.out)
            parsed == ParseContainerProcs(ps.out, <<>>)
            registers == Registers(smi, ps, parsed)
            \* line 254: some call of the iteration raised
            raised == \/ smi.exc
                      \/ smi.rc = 0 /\ ps.exc
                      \/ smi.rc = 0 /\ ps.rc = 0 /\ (parsed.raised \/ ~opened)
            idx == Len(gpu_containers) + 1
            key == MakeKey(rnd, pod.name, pod.namespace, pod.nodeName, cname)
            nodemap == IF registers
                       THEN NodeMapAppend(gpu_node_to_containers_map, pod.nodeName, idx)
                       ELSE gpu_node_to_containers_map
        IN /\ gpu_node_to_containers_map' = nodemap
           /\ IF registers
              THEN /\ gpu_containers' =
                         Append(gpu_containers, GpuContainer(pod, cname, rows, parsed.procs))
                   /\ gpu_containers_map' = MapPut(gpu_containers_map, key, idx)
                   /\ IF opened
                      THEN /\ channels' = Append(channels, NewChannel(key))
                           /\ exec_processes' = DictPut(exec_processes, key, Len(channels) + 1)
                      ELSE UNCHANGED <<channels, exec_processes>>
              ELSE UNCHANGED <<gpu_containers, gpu_containers_map, channels, exec_processes>>
           /\ probed' = Append(probed, [pod |-> pod.name, namespace |-> pod.namespace,
                                        container |-> cname, raised |-> raised])
           /\ scan' = ScanAnswers(smi, ps, registers, opened)
           /\ ScanNext(pod_i, cont_i, nodemap)
    /\ UNCHANGED <<pod_list, created, node_i, clean_i, node_pod_name, probe_pods, conflicts, polls,
                   last, stdout, pending, exit_status, table>>

----------------------------------------------------------------------------
(* The node loop, lines 258-396 *)

CurrentNode == gpu_node_to_containers_map[node_i].node

Called(call, outcome) == [call |-> call, outcome |-> outcome]

\* an exception (or sys.exit) leaves the try block: the finally block runs
Abort(kind) ==
    /\ pending' = kind
    /\ pc' = "cleanup"
    /\ conflicts' = 0
    /\ polls' = 0

\* lines 260-261: 'x-gpuproc-{}-{}'.format(randstr(...), gpu_node), as the
\* tuple of its parts
ProbePodName(rnd, gpu_node) == <<"x-gpuproc", rnd, gpu_node>>

\* a delete of the stale pod whose errors are all ignored, to try C9 against
DeleteStaleIgnores(status) == TRUE

\* lines 292-297: "200" is a delete that returned, the others the status of
\* the ApiException it raised
DeleteStaleGoesOn(status) == status = "200" \/ status = "404"

\* lines 258-297: the name of the probe pod and the delete of a stale pod of
\* that name
NodeDeleteStale ==
    /\ pc = "delete_stale"
    /\ \E rnd \in Nonces, status \in {"200", "404", "500"} :
        /\ node_pod_name' = ProbePodName(rnd, CurrentNode)
        /\ last' = Called("delete_stale", status)
        /\ IF DeleteStaleGoesOn(status)
           THEN pc' = "create" /\ UNCHANGED <<pending, conflicts, polls>>
           ELSE Abort("SystemExit")
    /\ stdout' = <<>>
    /\ scan' = NoScan
    /\ UNCHANGED <<pod_list, created, pod_i, cont_i, probed, gpu_containers,
                   gpu_node_to_containers_map,
                   gpu_containers_map, exec_processes, channels, node_i, clean_i, probe_pods,
                   exit_status, table>>

\* a create without the retry, to try C6 against
CreateNextNoRetry(status) == IF status = "201" THEN "poll" ELSE "cleanup"

\* lines 299-308: where the create loop goes after an answer: "201" is a
\* create that returned, the others the status of the ApiException
CreateNext(status) ==
    IF status = "201" THEN "poll" ELSE IF status = "409" THEN "create" ELSE "cleanup"

\* lines 299-308: one turn of the create loop
NodeCreate ==
    /\ pc = "create"
    /\ \E status \in {"201", "409", "500"} :
        /\ last' = Called("create", status)
        /\ probe_pods' = IF status = "201" THEN Append(probe_pods, node_pod_name)
                         ELSE probe_pods
        /\ created' = IF status = "201" THEN Append(created, CurrentNode) ELSE created
        /\ IF CreateNext(status) = "cleanup"
           THEN Abort("SystemExit")
           ELSE /\ pc' = CreateNext(status)
                /\ conflicts' = IF status = "409" /\ conflicts < MaxConflicts
                                THEN conflicts + 1 ELSE conflicts
                /\ UNCHANGED <<polls, pending>>
    /\ scan' = NoScan
    /\ UNCHANGED <<pod_list, pod_i, cont_i, probed, gpu_containers, gpu_node_to_containers_map,
                   gpu_containers_map, exec_processes, channels, node_i, clean_i, node_pod_name,
                   stdout, exit_status, table>>

\* a status loop that any answer ends, to try C23 against
PhaseLeavesPollAny(phase) == TRUE

\* line 313: the status loop ends on any phase but Pending
PhaseLeavesPoll(phase) == phase # "Pending"

\* lines 310-315: one turn of the status loop; read_namespaced_pod returns a
\* phase or raises
NodePoll ==
    /\ pc = "poll"
    /\ \E phase \in {"Pending", "Running", "Failed", "raise"} :
        /\ last' = Called("read", phase)
        /\ IF phase = "raise"
           THEN Abort("Exception")
           ELSE IF ~PhaseLeavesPoll(phase)
           THEN /\ polls' = IF polls < MaxPolls THEN polls + 1 ELSE polls
                /\ UNCHANGED <<pc, conflicts, pending>>
           ELSE /\ pc' = "walk"
                /\ polls' = 0
                /\ UNCHANGED <<conflicts, pending>>
    /\ scan' = NoScan
    /\ UNCHANGED <<pod_list, created, pod_i, cont_i, probed, gpu_containers,
                   gpu_node_to_containers_map,
                   gpu_containers_map, exec_processes, channels, node_i, clean_i, node_pod_name,
                   probe_pods, stdout, exit_status, table>>

\* a walk whose passes are wrapped in a handler that swallows what they
\* raise, to try C15 against
WalkQuiet(res) ==
    /\ pc = "walk"
    /\ stdout' = res.out
    /\ IF res.exc
       THEN /\ Abort("Exception")
            /\ last' = Called("walk", "raise")
            /\ UNCHANGED gpu_containers
       ELSE IF res.rc # 0
       THEN /\ pc' = "delete_probe"
            /\ last' = Called("walk", "rc1")
            /\ UNCHANGED <<gpu_containers, pending, conflicts, polls>>
       ELSE /\ gpu_containers' = HostPass(res.out, gpu_containers_map, gpu_containers).gcs
            /\ pc' = "delete_probe"
            /\ last' = Called("walk", "rc0")
            /\ UNCHANGED <<pending, conflicts, polls>>
    /\ scan' = NoScan
    /\ UNCHANGED <<pod_list, created, pod_i, cont_i, probed, gpu_node_to_containers_map,
                   gpu_containers_map, exec_processes, channels, node_i, clean_i, node_pod_name,
                   probe_pods, exit_status, table>>

\* a walk that takes the key of a marker out of the map (pop for get), to
\* try C24 against
WalkPop(res) ==
    /\ pc = "walk"
    /\ stdout' = res.out
    /\ IF res.exc
       THEN /\ Abort("Exception")
            /\ last' = Called("walk", "raise")
            /\ UNCHANGED gpu_containers
       ELSE IF res.rc # 0
       THEN /\ pc' = "delete_probe"
            /\ last' = Called("walk", "rc1")
            /\ UNCHANGED <<gpu_containers, pending, conflicts, polls>>
       ELSE LET pass == HostPass(res.out, gpu_containers_map, gpu_containers) IN
            /\ gpu_containers' = pass.gcs
            /\ IF pass.raised
               THEN /\ Abort("Exception")
                    /\ last' = Called("walk", "pass_raise")
               ELSE /\ pc' = "delete_probe"
                    /\ last' = Called("walk", "rc0")
                    /\ UNCHANGED <<pending, conflicts, polls>>
    /\ gpu_containers_map' =
            IF res.exc \/ res.rc # 0 THEN gpu_containers_map
            ELSE LET seen == {key \in DOMAIN gpu_containers_map :
                                \E l \in DOMAIN res.out : \E w \in DOMAIN res.out[l][4] :
                                    res.out[l][4][w] = key}
                 IN [key \in DOMAIN gpu_containers_map \ seen |-> gpu_containers_map[key]]
    /\ scan' = NoScan
    /\ UNCHANGED <<pod_list, created, pod_i, cont_i, probed, gpu_node_to_containers_map,
                   exec_processes, channels, node_i, clean_i, node_pod_name,
                   probe_pods, exit_status, table>>

\* a walk whose non-zero exit ends the run, to try C27 against
WalkStrict(res) ==
    /\ pc = "walk"
    /\ stdout' = res.out
    /\ IF res.exc
       THEN /\ Abort("Exception")
            /\ last' = Called("walk", "raise")
            /\ UNCHANGED gpu_containers
       ELSE IF res.rc # 0
       THEN /\ Abort("SystemExit")
            /\ last' = Called("walk", "rc1")
            /\ UNCHANGED gpu_containers
       ELSE LET pass == HostPass(res.out, gpu_containers_map, gpu_containers) IN
            /\ gpu_containers' = pass.gcs
            /\ IF pass.raised
               THEN /\ Abort("Exception")
                    /\ last' = Called("walk", "pass_raise")
               ELSE /\ pc' = "delete_probe"
                    /\ last' = Called("walk", "rc0")
                    /\ UNCHANGED <<pending, conflicts, polls>>
    /\ scan' = NoScan
    /\ UNCHANGED <<pod_list, created, pod_i, cont_i, probed, gpu_node_to_containers_map,
                   gpu_containers_map, exec_processes, channels, node_i, clean_i, node_pod_name,
                   probe_pods, exit_status, table>>

\* lines 324-394: the walk in the probe pod and the passes over its output
Walk(res) ==
    /\ pc = "walk"
    /\ stdout' = res.out
    /\ IF res.exc
       THEN /\ Abort("Exception")
            /\ last' = Called("walk", "raise")
            /\ UNCHANGED gpu_containers
       ELSE IF res.rc # 0
       THEN /\ pc' = "delete_probe"
            /\ last' = Called("walk", "rc1")
            /\ UNCHANGED <<gpu_containers, pending, conflicts, polls>>
       ELSE LET pass == HostPass(res.out, gpu_containers_map, gpu_containers) IN
            /\ gpu_containers' = pass.gcs
            /\ IF pass.raised
               THEN /\ Abort("Exception")
                    /\ last' = Called("walk", "pass_raise")
               ELSE /\ pc' = "delete_probe"
                    /\ last' = Called("walk", "rc0")
                    /\ UNCHANGED <<pending, conflicts, polls>>
    /\ scan' = NoScan
    /\ UNCHANGED <<pod_list, created, pod_i, cont_i, probed, gpu_node_to_containers_map,
                   gpu_containers_map, exec_processes, channels, node_i, clean_i, node_pod_name,
                   probe_pods, exit_status, table>>

NodeWalk == \E res \in ExecResults(WalkOutputs(CurrentNode)) : Walk(res)

\* line 396, and the step of the node loop
\* a delete that leaves the pod in the cluster, to try C26 against
DeletePodKeeps(pods, name) == pods

\* line 396: delete_namespaced_pod has removed the pod of that name
DeletePod(pods, name) == SelectSeq(pods, LAMBDA n : n # name)

NodeDeleteProbe ==
    /\ pc = "delete_probe"
    /\ \E status \in {"200", "500"} :
        /\ last' = Called("delete_probe", status)
        /\ IF status = "200"
           THEN /\ probe_pods' = DeletePod(probe_pods, node_pod_name)
                /\ IF node_i < Len(gpu_node_to_containers_map)
                   THEN node_i' = node_i + 1 /\ pc' = "delete_stale"
                   ELSE pc' = "cleanup" /\ UNCHANGED node_i
                /\ conflicts' = 0
                /\ UNCHANGED <<pending, polls>>
           ELSE /\ Abort("Exception")
                /\ UNCHANGED <<probe_pods, node_i>>
    /\ stdout' = <<>>
    /\ scan' = NoScan
    /\ UNCHANGED <<pod_list, created, pod_i, cont_i, probed, gpu_containers,
                   gpu_node_to_containers_map,
                   gpu_containers_map, exec_processes, channels, clean_i, node_pod_name,
                   exit_status, table>>

----------------------------------------------------------------------------
(* The finally block, lines 397-407, and the table, lines 413-422 *)

\* lines 400-407: one channel of exec_processes.  how: both calls return, or
\* write_stdin raises, or k8s_end_exec raises while it drains the stream
Terminate(ch, how) ==
    IF how = "ok"
    THEN [ch EXCEPT !.tries = @ + 1, !.writes = @ + 1, !.ends = @ + 1, !.open = FALSE]
    ELSE IF how = "write_raises" THEN [ch EXCEPT !.tries = @ + 1]
    ELSE [ch EXCEPT !.tries = @ + 1, !.writes = @ + 1]

\* a termination loop that is no finally block, to try C1 against
CleanupSkipped == clean_i > Len(exec_processes) \/ pending # "none"

\* line 400: the loop over exec_processes.items() is over
CleanupDone == clean_i > Len(exec_processes)

\* a termination loop without the handler of lines 406-407, which an error
\* ends, to try C25 against
AfterTerminateStops(i, how) == IF how = "ok" THEN i + 1 ELSE Len(exec_processes) + 1

\* lines 400-407: the handler logs what the termination raises and the loop
\* goes on with the next channel
AfterTerminate(i, how) == i + 1

CleanupStep ==
    /\ pc = "cleanup"
    /\ ~CleanupDone
    /\ \E how \in {"ok", "write_raises", "end_raises"} :
        /\ channels' = [channels EXCEPT ![exec_processes[clean_i].resp] = Terminate(@, how)]
        /\ clean_i' = AfterTerminate(clean_i, how)
    /\ stdout' = <<>>
    /\ scan' = NoScan
    /\ UNCHANGED <<pod_list, created, pc, pod_i, cont_i, probed, gpu_containers,
                   gpu_node_to_containers_map, gpu_containers_map, exec_processes, node_i,
                   node_pod_name, probe_pods, conflicts, polls, last, pending, exit_status,
                   table>>

\* lines 416-420: the rows of the processes of container g from process i on
RECURSIVE TableRows(_, _, _)
TableRows(gcs, g, i) ==
    IF g > Len(gcs) THEN <<>>
    ELSE IF i > Len(gcs[g].processes) THEN TableRows(gcs, g + 1, 1)
    ELSE LET gpu_container == gcs[g]
             process == gpu_container.processes[i]
         IN IF process.gpu_used_memory # NoStr
            THEN <<<<gpu_container.node_name, gpu_container.pod_name,
                     gpu_container.pod_namespace, process.host_pid, process.pid,
                     process.gpu_name, process.gpu_pci_address, process.gpu_used_memory,
                     process.cmdline>>>> \o TableRows(gcs, g, i + 1)
            ELSE TableRows(gcs, g, i + 1)

\* the end of the finally block: what travelled through it goes on (the
\* process ends with status 1), or main() prints the table and returns
Finish ==
    /\ pc = "cleanup"
    /\ CleanupDone
    /\ pc' = "done"
    /\ IF pending = "none"
       THEN table' = TableRows(gpu_containers, 1, 1) /\ exit_status' = 0
       ELSE exit_status' = 1 /\ UNCHANGED table
    /\ stdout' = <<>>
    /\ scan' = NoScan
    /\ UNCHANGED <<pod_list, created, pod_i, cont_i, probed, gpu_containers,
                   gpu_node_to_containers_map,
                   gpu_containers_map, exec_processes, channels, node_i, clean_i,
                   node_pod_name, probe_pods, conflicts, polls, last, pending>>

----------------------------------------------------------------------------
(* The run *)

Init ==
    /\ pod_list \in PodLists
    /\ pc = "scan"
    /\ pod_i = 1
    /\ cont_i = 1
    /\ probed = <<>>
    /\ scan = NoScan
    /\ gpu_containers = <<>>
    /\ gpu_node_to_containers_map = <<>>
    /\ gpu_containers_map = EmptyMap
    /\ exec_processes = <<>>
    /\ channels = <<>>
    /\ node_i = 1
    /\ clean_i = 1
    /\ node_pod_name = <<>>
    /\ probe_pods = <<>>
    /\ created = <<>>
    /\ conflicts = 0
    /\ polls = 0
    /\ last = Called("none", "none")
    /\ stdout = <<>>
    /\ pending = "none"
    /\ exit_status = -1
    /\ table = <<>>

Next ==
    \/ ScanPodNotReady
    \/ ScanContainer
    \/ NodeDeleteStale
    \/ NodeCreate
    \/ NodePoll
    \/ NodeWalk
    \/ NodeDeleteProbe
    \/ CleanupStep
    \/ Finish

Spec == Init /\ [][Next]_vars

----------------------------------------------------------------------------
(* The passes of a node as a function of the GPU rows and of the dump: the
   run from the walk on node n1 on, after a scan that has registered the two
   containers of pod p1 and opened their channels *)

CorrPod == Pod(1, [has |-> TRUE, ready |-> <<TRUE, TRUE>>])

CorrKey(c) ==
    MakeKey("r1", CorrPod.name, CorrPod.namespace, CorrPod.nodeName, CorrPod.containers[c])

\* the key of a run that is over
StaleKey == MakeKey("r0", "p9", "ns1", "n1", "c1")

CorrProcs == ParseContainerProcs(<<CLine("7", "procX"), CLine("8", "procY"), CLine("self", "sh")>>, <<>>).procs

\* the lines a dump is made of: the two markers in namespaces of their own, a
\* second process with the second key in the namespace of the first (the
\* containers of a pod can share one), processes of the two namespaces, a process of the host, a line
\* whose first NSpid entry is not its PID, the marker of another run, and a
\* command line with a tab in it
CorrLines ==
    {HostLine("501", "pid:[1]", <<"501", "1">>, MarkerCmd(CorrKey(1))),
     HostLine("502", "pid:[2]", <<"502", "1">>, MarkerCmd(CorrKey(2))),
     HostLine("504", "pid:[1]", <<"504", "2">>, MarkerCmd(CorrKey(2))),
     HostLine("1234", "pid:[1]", <<"1234", "7">>, <<<<"procX">>>>),
     HostLine("9999", "pid:[1]", <<"9999", "8">>, <<<<"procY">>>>),
     HostLine("4321", "pid:[2]", <<"4321", "7">>, <<<<"procX">>>>),
     HostLine("8765", "pid:[0]", <<"8765">>, <<<<"init">>>>),
     HostLine("8765", "pid:[1]", <<"4321", "8">>, MarkerCmd(CorrKey(1))),
     HostLine("503", "pid:[3]", <<"503", "1">>, MarkerCmd(StaleKey)),
     TabLine}

\* /proc has one entry per host PID, and a PID namespace one process per PID
CorrDumps ==
    {d \in SeqsUpTo(CorrLines, MaxLines) :
        \A i, j \in DOMAIN d :
            i < j => /\ d[i][1].name # d[j][1].name
                     /\ ~(/\ d[i][2] = d[j][2]
                          /\ Len(d[i][3].vals) > 1 /\ Len(d[j][3].vals) > 1
                          /\ d[i][3].vals[2] = d[j][3].vals[2])}

\* what nvidia-smi has printed in the first container
CorrRows == SeqsUpTo({RowA, RowB, Row9}, MaxRows)

InitCorr ==
    /\ pod_list = <<CorrPod>>
    /\ pc = "walk"
    /\ pod_i = 2
    /\ cont_i = 1
    /\ probed = [c \in 1..2 |-> [pod |-> CorrPod.name, namespace |-> CorrPod.namespace,
                                 container |-> CorrPod.containers[c], raised |-> FALSE]]
    /\ scan = NoScan
    /\ \E rows \in CorrRows :
        gpu_containers = <<GpuContainer(CorrPod, "c1", rows, CorrProcs),
                           GpuContainer(CorrPod, "c2", <<RowA>>, CorrProcs)>>
    /\ gpu_node_to_containers_map = <<[node |-> "n1", containers |-> <<1, 2>>]>>
    /\ gpu_containers_map = MapPut(MapPut(EmptyMap, CorrKey(1), 1), CorrKey(2), 2)
    /\ exec_processes = <<[key |-> CorrKey(1), resp |-> 1], [key |-> CorrKey(2), resp |-> 2]>>
    /\ channels = <<NewChannel(CorrKey(1)), NewChannel(CorrKey(2))>>
    /\ node_i = 1
    /\ clean_i = 1
    /\ node_pod_name = ProbePodName("r1", "n1")
    /\ probe_pods = <<ProbePodName("r1", "n1")>>
    /\ created = <<"n1">>
    /\ conflicts = 0
    /\ polls = 0
    /\ last = Called("read", "Running")
    /\ stdout = <<>>
    /\ pending = "none"
    /\ exit_status = -1
    /\ table = <<>>

CorrWalk == pc = "walk" /\ \E res \in ExecResults(CorrDumps) : Walk(res)

NextCorr ==
    \/ CorrWalk
    \/ NodeDeleteProbe
    \/ CleanupStep
    \/ Finish

SpecCorr == InitCorr /\ [][NextCorr]_vars

----------------------------------------------------------------------------
(* Properties *)

Channels == {channels[i] : i \in DOMAIN channels}

\* C1 (as the code has it): whatever has been raised in the scan, in a node's
\* probe or by a fatal exit, every channel that was opened and registered gets
\* exactly one turn of the termination loop by the end of the run, the newline
\* written before the reap and neither of them twice; a channel is closed by
\* its reap and by nothing else, so a channel whose write or reap raises in
\* that turn is left open, logged and not tried again
C1_TerminatedOnce ==
    /\ Len(exec_processes) = Len(channels)
    /\ \A i \in DOMAIN exec_processes :
        exec_processes[i].resp = i /\ channels[i].key = exec_processes[i].key
    /\ \A ch \in Channels :
        /\ ch.tries <= 1 /\ ch.writes <= ch.tries /\ ch.ends <= ch.writes
        /\ ch.open <=> ch.ends = 0
        /\ pc = "done" => ch.tries = 1

\* C1, the case: a run that a fatal error has ended, with two channels, both
\* written to and reaped
C1_Witness ==
    /\ pc = "done"
    /\ pending # "none"
    /\ Len(channels) >= 2
    /\ \A ch \in Channels : ch.tries = 1 /\ ch.writes = 1 /\ ch.ends = 1 /\ ~ch.open

\* C1 as stated: at the end of the run every registered channel has been
\* written to and reaped exactly once and none is left open
C1_ClosedExactlyOnce ==
    pc = "done" => \A ch \in Channels : ch.writes = 1 /\ ch.ends = 1 /\ ~ch.open

Processes ==
    UNION {Range(gpu_containers[g].processes) : g \in DOMAIN gpu_containers}

\* C2: a ContainerProcess has none or all three of its GPU fields, with them
\* it has a host PID, and every row of the final table has a host PID and the
\* three GPU fields
C2_GpuFieldsAllOrNone ==
    /\ \A p \in Processes :
        /\ \/ p.gpu_name = NoStr /\ p.gpu_pci_address = NoStr /\ p.gpu_used_memory = NoStr
           \/ p.gpu_name # NoStr /\ p.gpu_pci_address # NoStr /\ p.gpu_used_memory # NoStr
        /\ p.gpu_used_memory # NoStr => p.host_pid # NoPid
    /\ \A t \in DOMAIN table :
        table[t][4] # NoPid /\ table[t][6] # NoStr /\ table[t][7] # NoStr /\ table[t][8] # NoStr

\* C2, the case: a printed table with a row, beside a process with a host PID
\* that no GPU row names
C2_Witness ==
    /\ pc = "done"
    /\ table # <<>>
    /\ \E p \in Processes : p.host_pid # NoPid /\ p.gpu_used_memory = NoStr
    /\ \E p \in Processes : p.host_pid # NoPid /\ p.gpu_used_memory # NoStr

\* the lines of a dump the first pass keeps as host process records
HostRecords(lines) ==
    {lines[i] : i \in {j \in DOMAIN lines :
        /\ Len(lines[j]) = 4
        /\ lines[j][1].dir = "/proc/" /\ IsInt(lines[j][1].name)
        /\ lines[j][3].label = "NSpid:"
        /\ lines[j][3].vals # <<>>
        /\ \A v \in DOMAIN lines[j][3].vals : IsInt(lines[j][3].vals[v])
        /\ IntOf(lines[j][1].name) = IntOf(lines[j][3].vals[1])}}

\* the records whose command line carries the key
MarkerRecords(lines, key) ==
    {rec \in HostRecords(lines) : \E w \in DOMAIN rec[4] : rec[4][w] = key}

\* C3 as stated: after a pass over a dump in which at most one process carries
\* the key of a container, a process of the container has the host PID of the
\* record of the marker's namespace whose second NSpid entry is its PID, and
\* no host PID when there is no such record or no marker
C3_RoundTrip ==
    last = Called("walk", "rc0") =>
        \A key \in DOMAIN gpu_containers_map :
            LET gc == gpu_containers[gpu_containers_map[key]]
                markers == MarkerRecords(stdout, key)
            IN Cardinality(markers) <= 1 =>
               \A i \in DOMAIN gc.processes :
                   LET recs == {rec \in HostRecords(stdout) :
                                   /\ \E m \in markers : rec[2] = m[2]
                                   /\ Len(rec[3].vals) > 1
                                   /\ IntOf(rec[3].vals[2]) = gc.processes[i].pid}
                   IN IF recs = {} THEN gc.processes[i].host_pid = NoPid
                      ELSE \A rec \in recs : gc.processes[i].host_pid = IntOf(rec[1].name)

\* the walk has returned and its passes have not raised
PassReturned == last.call = "delete_probe" \/ last = Called("walk", "rc0")

\* the rows of the container whose PID is the host PID of the process
MatchingRows(gc, p) ==
    {r \in DOMAIN gc.gpu_usage_list :
        p.host_pid # NoPid /\ IntOf(gc.gpu_usage_list[r][3]) = p.host_pid}

TableRow(gc, p, row) ==
    <<gc.node_name, gc.pod_name, gc.pod_namespace, p.host_pid, p.pid, row[1], row[2], row[5],
      p.cmdline>>

Max(S) == CHOOSE x \in S : \A y \in S : y <= x

\* C4 (as the code has it): after a node's pass a process whose host PID is
\* the PID of GPU rows of its container carries the GPU name, PCI address and
\* used memory of the last of these rows, and the table of a run that ends
\* without an error has the row (node, pod, namespace, host PID, local PID,
\* GPU name, PCI address, used memory, command line) of that last row
C4_GpuJoinLastRow ==
    PassReturned =>
        \A g \in DOMAIN gpu_containers :
            LET gc == gpu_containers[g] IN
            \A i \in DOMAIN gc.processes :
                LET p == gc.processes[i]
                    rs == MatchingRows(gc, p)
                IN rs # {} =>
                   LET row == gc.gpu_usage_list[Max(rs)] IN
                   /\ p.gpu_name = row[1]
                   /\ p.gpu_pci_address = row[2]
                   /\ p.gpu_used_memory = row[5]
                   /\ pc = "done" /\ pending = "none" =>
                          \E t \in DOMAIN table : table[t] = TableRow(gc, p, row)

\* C4, the case: the row of the scenario in the table, from a container whose
\* second row has the same PID as its first
C4_Witness ==
    /\ pc = "done"
    /\ gpu_containers[1].gpu_usage_list = <<RowB, RowA>>
    /\ \E t \in DOMAIN table :
        table[t] = <<"n1", "p1", "ns1", 1234, 7, "gpuA", "pci1", "500MiB", "procX">>

\* C4 as stated: after a node's pass a process carries the fields of every
\* GPU row of its container whose PID is its host PID, and the table of the
\* run has the row of every such GPU row
C4_GpuJoinEveryRow ==
    PassReturned =>
        \A g \in DOMAIN gpu_containers :
            LET gc == gpu_containers[g] IN
            \A i \in DOMAIN gc.processes :
                LET p == gc.processes[i] IN
                \A r \in MatchingRows(gc, p) :
                    LET row == gc.gpu_usage_list[r] IN
                    /\ p.gpu_name = row[1]
                    /\ p.gpu_pci_address = row[2]
                    /\ p.gpu_used_memory = row[5]
                    /\ pc = "done" /\ pending = "none" =>
                           \E t \in DOMAIN table : table[t] = TableRow(gc, p, row)

\* C5: a GPU row whose PID is the host PID of no process of its container
\* gives no process its fields and the table no row, and it raises nothing:
\* the passes raise only for a line of the dump, and a run in which nothing
\* was raised ends with status 0 and a table of one row per process that has
\* a matching row
C5_UnmatchedRowDropped ==
    /\ \A g \in DOMAIN gpu_containers :
        LET gc == gpu_containers[g] IN
        \A i \in DOMAIN gc.processes :
            LET p == gc.processes[i] IN
            p.gpu_used_memory # NoStr =>
                \E r \in MatchingRows(gc, p) :
                    /\ p.gpu_name = gc.gpu_usage_list[r][1]
                    /\ p.gpu_pci_address = gc.gpu_usage_list[r][2]
                    /\ p.gpu_used_memory = gc.gpu_usage_list[r][5]
    /\ last = Called("walk", "pass_raise") /\ pc = "cleanup" /\ clean_i = 1 =>
        ParseHostLines(stdout, gpu_containers_map, PassState(gpu_containers)).raised
    /\ pc = "done" /\ pending = "none" =>
        /\ exit_status = 0
        /\ \A t \in DOMAIN table :
            \E g \in DOMAIN gpu_containers : \E i \in DOMAIN gpu_containers[g].processes :
                \E r \in MatchingRows(gpu_containers[g], gpu_containers[g].processes[i]) :
                    table[t] = TableRow(gpu_containers[g], gpu_containers[g].processes[i],
                                        gpu_containers[g].gpu_usage_list[r])

\* C5, the case: a run that ends normally after a pass that gave the first
\* container its host PIDs, none of them 9999, the PID of one of its two rows
C5_Witness ==
    /\ pc = "done"
    /\ pending = "none"
    /\ exit_status = 0
    /\ last = Called("delete_probe", "200")
    /\ gpu_containers[1].gpu_usage_list = <<Row9, RowA>>
    /\ \E i \in DOMAIN gpu_containers[1].processes :
        gpu_containers[1].processes[i].host_pid = 1234
    /\ \A i \in DOMAIN gpu_containers[1].processes :
        gpu_containers[1].processes[i].host_pid # 9999
    /\ \A t \in DOMAIN table : table[t][8] # "100MiB"
    /\ Len(table) >= 1

\* C6: a create that answers 409 is tried again and makes nothing fatal; the
\* create that succeeds after conflicts leaves the run not fatal, the probe of
\* the node goes on with the status read, and the pod it made is the one
\* probe pod there is, until the delete at the end of the node's turn
C6_ConflictRetried ==
    /\ last = Called("create", "409") =>
        pc = "create" /\ pending = "none" /\ probe_pods = <<>>
    /\ last = Called("create", "201") =>
        pc = "poll" /\ pending = "none" /\ probe_pods = <<node_pod_name>>
    /\ conflicts > 0 /\ pc \in {"poll", "walk", "delete_probe"} =>
        pending = "none" /\ probe_pods = <<node_pod_name>>
    /\ Len(probe_pods) <= 1
    /\ last = Called("delete_probe", "200") => probe_pods = <<>>

\* C6, the case: two conflicts, then the create that succeeds
C6_Witness ==
    /\ conflicts = 2
    /\ last = Called("create", "201")
    /\ pc = "poll"
    /\ probe_pods = <<node_pod_name>>

\* C7 as stated: the probe pod of a node is gone when the run ends, whatever
\* the walk and its passes have come to
C7_ProbePodDeleted ==
    pc = "done" /\ last.call = "walk" => probe_pods = <<>>

\* the containers of the ready pods from pod p on, in the order of the scan
RECURSIVE ReadyContainers(_)
ReadyContainers(p) ==
    IF p > Len(pod_list) THEN <<>>
    ELSE IF k8s_pod_ready(pod_list[p])
         THEN [c \in DOMAIN pod_list[p].containers |->
                  [pod |-> pod_list[p].name, namespace |-> pod_list[p].namespace,
                   container |-> pod_list[p].containers[c]]] \o ReadyContainers(p + 1)
    ELSE ReadyContainers(p + 1)

Scanned == [i \in DOMAIN probed |->
               [pod |-> probed[i].pod, namespace |-> probed[i].namespace,
                container |-> probed[i].container]]

\* C8: nothing raised in a container ends the scan: the containers probed are
\* a prefix of the containers of the ready pods whatever has been raised in
\* them, all of them once the scan is over; nothing travels out of the scan,
\* and the node loop is entered unless no container was registered
C8_ScanGoesOn ==
    /\ Len(Scanned) <= Len(ReadyContainers(1))
    /\ Scanned = SubSeq(ReadyContainers(1), 1, Len(Scanned))
    /\ pc = "scan" => pending = "none"
    /\ pc # "scan" => Scanned = ReadyContainers(1)
    /\ pc = "cleanup" /\ last.call = "none" =>
        pending = "none" /\ gpu_node_to_containers_map = <<>>

\* C8, the case: the first container raised, the two after it were probed
\* and registered, and the node loop begins
C8_Witness ==
    /\ pc = "delete_stale"
    /\ last.call = "none"
    /\ Len(probed) >= 3
    /\ probed[1].raised
    /\ Len(gpu_containers) >= 2

FatalAnswers ==
    {Called("delete_stale", "500"), Called("create", "500"), Called("read", "raise"),
     Called("delete_probe", "500")}

\* C9: an error of the delete of the stale pod other than 404, of the create
\* other than 409, of the status read or of the final delete ends the node
\* loop at once; from then on no node is probed and no probe pod made, the
\* termination loop gives every channel its turn, and the process ends with
\* status 1 and no table
C9_FatalEndsRun ==
    /\ [](/\ last \in FatalAnswers => pending # "none"
          /\ pending # "none" => pc \in {"cleanup", "done"}
          /\ pc = "done" /\ pending # "none" =>
                /\ exit_status = 1
                /\ table = <<>>
                /\ \A ch \in Channels : ch.tries = 1)
    /\ [][pending # "none" =>
            /\ pending' = pending /\ last' = last /\ node_i' = node_i
            /\ probe_pods' = probe_pods
            /\ pc' \in {"cleanup", "done"}]_vars

\* C9, the case: the create on the first of two nodes answers 500, and the
\* run is over with the two channels tried
C9_Witness ==
    /\ pc = "done"
    /\ last = Called("create", "500")
    /\ node_i = 1
    /\ Len(gpu_node_to_containers_map) = 2
    /\ Len(channels) >= 2
    /\ \A ch \in Channels : ch.tries = 1
    /\ exit_status = 1

\* C10: the registry has one key per registered GpuContainer, a key resolves
\* to the container of the pod, namespace, node and container name it holds,
\* and the channels are registered under keys that differ, all of it with a
\* single random string
C10_KeysUnique ==
    /\ Cardinality(Nonces) = 1
    /\ Cardinality(DOMAIN gpu_containers_map) = Len(gpu_containers)
    /\ \A key \in DOMAIN gpu_containers_map :
        LET gc == gpu_containers[gpu_containers_map[key]] IN
        /\ key[3] = gc.pod_name /\ key[4] = gc.pod_namespace
        /\ key[5] = gc.node_name /\ key[6] = gc.container_name
    /\ \A i, j \in DOMAIN exec_processes :
        i # j => exec_processes[i].key # exec_processes[j].key
    /\ Len(exec_processes) = Len(channels)

\* C10, the case: three containers registered, two of them of one pod
C10_Witness ==
    /\ Len(gpu_containers) >= 3
    /\ gpu_containers[1].pod_name = gpu_containers[2].pod_name
    /\ gpu_containers[1].pod_namespace = gpu_containers[2].pod_namespace
    /\ Cardinality(DOMAIN gpu_containers_map) = Len(gpu_containers)
    /\ Len(channels) = Len(gpu_containers)

NodePhase == {"delete_stale", "create", "poll", "walk", "delete_probe"}

OpenKeys == {channels[i].key : i \in {j \in DOMAIN channels : channels[j].open}}

\* C11 as stated: while the nodes are probed a registered GpuContainer has at
\* most one key in the registry and one open channel: the keys of the
\* registry are the keys of the open channels
C11_OneChannelPerContainer ==
    pc \in NodePhase =>
        /\ \A g \in DOMAIN gpu_containers :
            Cardinality({key \in DOMAIN gpu_containers_map : gpu_containers_map[key] = g}) <= 1
        /\ DOMAIN gpu_containers_map = OpenKeys

\* the positions in the dump of the records that carry the key
MarkerIndexes(lines, key) ==
    {j \in DOMAIN lines : lines[j] \in MarkerRecords(lines, key)}

Min(S) == CHOOSE x \in S : \A y \in S : x <= y

\* C12 as stated: the PID namespace of a GpuContainer is assigned when the
\* first process with its key is seen and never after: once the pass is over
\* it is the namespace of the first record of the dump that carries the key,
\* and unset when no record carries it
C12_NamespaceSetOnce ==
    last = Called("walk", "rc0") =>
        \A key \in DOMAIN gpu_containers_map :
            LET gc == gpu_containers[gpu_containers_map[key]]
                idx == MarkerIndexes(stdout, key)
            IN IF idx = {} THEN gc.host_pid_ns = NoStr
               ELSE gc.host_pid_ns = stdout[Min(idx)][2]

\* the ContainerProcesses of the well-formed lines of a container /proc scan
WellFormedProcs(lines) ==
    LET ok == SelectSeq(lines, LAMBDA l : Len(l) = 2 /\ l[1].dir = "/proc/" /\ IsInt(l[1].name))
    IN [i \in DOMAIN ok |-> ContainerProcess(IntOf(ok[i][1].name), ok[i][2])]

\* C13 as stated: a container whose /proc scan exited zero is registered as a
\* GpuContainer with the ContainerProcesses of the well-formed lines of the
\* scan, whatever malformed lines are among them, and its channel is opened
C13_MalformedLineSkipped ==
    scan.ps = "rc0" =>
        /\ gpu_containers # <<>>
        /\ LET gc == gpu_containers[Len(gpu_containers)]
               at == probed[Len(probed)]
           IN /\ gc.pod_name = at.pod /\ gc.pod_namespace = at.namespace
              /\ gc.container_name = at.container
              /\ gc.processes = WellFormedProcs(scan.lines)
        /\ scan.open \in {"ok", "raise"}

\* C14 as stated: the create loop is bounded: there is a number of conflicts,
\* among those the model counts, after which a create that answers 409 is not
\* tried again
C14_CreateRetryBounded ==
    \E bound \in 1..MaxConflicts :
        pc = "create" /\ conflicts >= bound =>
            ~ENABLED (NodeCreate /\ last' = Called("create", "409") /\ pc' = "create")

\* the records of a dump whose command line has a word that starts with the
\* prefix and is no key of the registry
UnknownKeyRecords(lines) ==
    {rec \in HostRecords(lines) :
        /\ ContainsPrefix(rec[4])
        /\ FirstKey(rec[4]) # <<>>
        /\ FirstKey(rec[4]) \notin DOMAIN gpu_containers_map}

\* C15: a walk whose output has a host process with a key that is not in the
\* registry raises out of the first pass: the node's processing stops there
\* (no process gets a host PID from the dump), an exception travels out
\* through the finally block, and the run ends with status 1 and no table
C15_UnknownKeyFailsLoudly ==
    /\ UnknownKeyRecords(stdout) # {} =>
        /\ last = Called("walk", "pass_raise")
        /\ pending = "Exception"
        /\ pc = "cleanup"
        /\ \A p \in Processes : p.host_pid = NoPid
    /\ last = Called("walk", "pass_raise") =>
        /\ pending = "Exception"
        /\ pc \in {"cleanup", "done"}
        /\ pc = "done" => exit_status = 1 /\ table = <<>>

\* C15, the case: a dump of the marker of the first container, a process of
\* its namespace and a process with the key of another run, and nothing else
\* that raises
C15_Witness ==
    /\ Len(stdout) = 3
    /\ stdout[1] \in MarkerRecords(stdout, CorrKey(1))
    /\ stdout[3] \in UnknownKeyRecords(stdout)
    /\ \A j \in DOMAIN stdout : Len(stdout[j]) = 4
    /\ gpu_containers[1].host_pid_ns = "pid:[1]"
    /\ pending = "Exception"

\* the random strings an earlier run can have drawn for its probe pods
EarlierNonces == {"r0", "r1"}

\* C16 as stated: the name of the probe pod of a node is the same in every
\* run, so the delete of step 1 is sent for the pod an earlier run has made
\* for the node, whatever random string that run drew; a 404 answer to it is
\* ignored and any other error is fatal
C16_StalePodDeleted ==
    /\ pc = "create" =>
        \A rnd \in EarlierNonces : node_pod_name = ProbePodName(rnd, CurrentNode)
    /\ last = Called("delete_stale", "404") => pc = "create" /\ pending = "none"
    /\ last = Called("delete_stale", "500") => pc \in {"cleanup", "done"} /\ pending # "none"

\* C17: while the scan goes on no probe pod has been named or made and no
\* node-loop call made; while the nodes are probed the scan is over (every
\* container of every ready pod probed), no channel is opened any more, and
\* every channel is open with no termination turn taken; a channel has had
\* its turn only in the finally block, entered after the delete of the last
\* node's probe pod or with an error travelling
C17_PhaseOrdering ==
    /\ [](/\ pc = "scan" =>
                probe_pods = <<>> /\ node_pod_name = <<>> /\ last.call = "none"
          /\ pc \in NodePhase \/ probe_pods # <<>> =>
                pod_i > Len(pod_list) /\ Scanned = ReadyContainers(1)
          /\ pc \in NodePhase \cup {"scan"} =>
                \A ch \in Channels : ch.open /\ ch.tries = 0 /\ ch.writes = 0 /\ ch.ends = 0
          /\ (\E ch \in Channels : ch.tries > 0 \/ ~ch.open) =>
                /\ pc \in {"cleanup", "done"}
                /\ \/ pending # "none"
                   \/ /\ last = Called("delete_probe", "200")
                      /\ node_i = Len(gpu_node_to_containers_map))
    /\ [][pc # "scan" => Len(channels') = Len(channels) /\ probed' = probed]_vars

\* C17, the case: the probe of the second node is at its end, with the
\* channels of both nodes open since the scan
C17_Witness ==
    /\ pc = "delete_probe"
    /\ node_i = 2
    /\ last = Called("walk", "rc0")
    /\ Len(channels) >= 2
    /\ \A ch \in Channels : ch.open /\ ch.tries = 0

\* the GpuContainer has a channel registered under a key with its names
HasChannel(gc) ==
    \E i \in DOMAIN exec_processes :
        LET key == exec_processes[i].key IN
        /\ key[3] = gc.pod_name /\ key[4] = gc.pod_namespace
        /\ key[5] = gc.node_name /\ key[6] = gc.container_name

\* C18: a container whose channel could not be opened has no PID namespace,
\* none of its processes has a host PID or a GPU field, and the table of the
\* run is the table of the containers that have a channel
C18_FailedOpenExcluded ==
    /\ \A g \in DOMAIN gpu_containers :
        ~HasChannel(gpu_containers[g]) =>
            /\ gpu_containers[g].host_pid_ns = NoStr
            /\ \A p \in Range(gpu_containers[g].processes) :
                /\ p.host_pid = NoPid
                /\ p.gpu_name = NoStr /\ p.gpu_pci_address = NoStr /\ p.gpu_used_memory = NoStr
    /\ pc = "done" /\ pending = "none" =>
        table = TableRows(SelectSeq(gpu_containers, HasChannel), 1, 1)

\* C18, the case: the first container, with a GPU row and no channel, beside a
\* container of its node that has a channel and a row in the table
C18_Witness ==
    /\ pc = "done"
    /\ pending = "none"
    /\ Len(gpu_containers) >= 2
    /\ ~HasChannel(gpu_containers[1])
    /\ gpu_containers[1].gpu_usage_list = <<RowA>>
    /\ HasChannel(gpu_containers[2])
    /\ gpu_containers[2].node_name = gpu_containers[1].node_name
    /\ \E p \in Range(gpu_containers[2].processes) : p.gpu_used_memory # NoStr
    /\ table # <<>>

\* the last container iteration has made a GpuContainer
ScanRegistered ==
    /\ gpu_containers # <<>>
    /\ probed # <<>>
    /\ LET gc == gpu_containers[Len(gpu_containers)]
           at == probed[Len(probed)]
       IN /\ gc.pod_name = at.pod /\ gc.pod_namespace = at.namespace
          /\ gc.container_name = at.container

\* every line of the /proc scan splits in two at the tab
LinesSplit(lines) == \A j \in DOMAIN lines : Len(lines[j]) = 2

\* C19 (as the code has it): the /proc scan is run for a container whose GPU
\* accounting command exited zero, with or without usage rows in its output;
\* the GpuContainer is made, with these rows, when the /proc scan exited zero
\* too and every line of it split, and the channel is then opened; so a
\* container with a zero exit and no rows is registered and its node is
\* probed, and none of its processes gets GPU fields
C19_RegisteredOnZeroExit ==
    /\ scan # NoScan =>
        /\ scan.ps # "none" <=> scan.smi = "rc0"
        /\ ScanRegistered <=> scan.ps = "rc0" /\ LinesSplit(scan.lines)
        /\ scan.open # "none" <=> ScanRegistered
        /\ ScanRegistered => gpu_containers[Len(gpu_containers)].gpu_usage_list = scan.rows
    /\ \A g \in DOMAIN gpu_containers :
        /\ \E i \in DOMAIN gpu_node_to_containers_map :
            /\ gpu_node_to_containers_map[i].node = gpu_containers[g].node_name
            /\ g \in Range(gpu_node_to_containers_map[i].containers)
        /\ gpu_containers[g].gpu_usage_list = <<>> =>
            \A p \in Range(gpu_containers[g].processes) : p.gpu_used_memory = NoStr

\* C19, the case: the one container registered has a zero exit and no usage
\* row, its channel is open, and the node loop begins for its node
C19_Witness ==
    /\ pc = "delete_stale"
    /\ scan.smi = "rc0"
    /\ scan.rows = <<>>
    /\ scan.open = "ok"
    /\ Len(gpu_containers) = 1
    /\ Len(channels) = 1
    /\ Len(gpu_node_to_containers_map) = 1

\* C19 as stated: the /proc scan is run, a GpuContainer made and a node
\* probed only for a container whose GPU accounting output has a usage row
C19_OnlyWithUsageRows ==
    /\ scan.ps # "none" => scan.rows # <<>>
    /\ \A g \in DOMAIN gpu_containers : gpu_containers[g].gpu_usage_list # <<>>
    /\ \A i \in DOMAIN gpu_node_to_containers_map :
        \E g \in Range(gpu_node_to_containers_map[i].containers) :
            gpu_containers[g].gpu_usage_list # <<>>

\* every container status of the pod of that name reports ready
StatusesReady(name, namespace) ==
    \E p \in DOMAIN pod_list :
        /\ pod_list[p].name = name /\ pod_list[p].namespace = namespace
        /\ pod_list[p].containerStatuses.has
        /\ \A i \in DOMAIN pod_list[p].containerStatuses.ready :
            pod_list[p].containerStatuses.ready[i]

\* C20: a command is run only in containers of pods whose container statuses
\* all report ready; a GPU probe that raises or exits non-zero is followed by
\* no /proc scan, no GpuContainer and no channel; the channel is opened only
\* after both commands exited zero, and every channel and GpuContainer there
\* is belongs to a ready pod
C20_ChannelOnlyIfReadyAndZero ==
    /\ \A i \in DOMAIN probed : StatusesReady(probed[i].pod, probed[i].namespace)
    /\ scan.smi \in {"rc1", "raise"} =>
        scan.ps = "none" /\ scan.open = "none" /\ ~ScanRegistered
    /\ scan.ps \in {"rc1", "raise"} => scan.open = "none" /\ ~ScanRegistered
    /\ scan.open # "none" => scan.smi = "rc0" /\ scan.ps = "rc0"
    /\ \A ch \in Channels :
        /\ StatusesReady(ch.key[3], ch.key[4])
        /\ ch.key \in DOMAIN gpu_containers_map
    /\ \A g \in DOMAIN gpu_containers :
        StatusesReady(gpu_containers[g].pod_name, gpu_containers[g].pod_namespace)

\* C20, the case: the scan is over; its last container, of a pod with a
\* channel, had a GPU probe that exited non-zero, and the pod after it was not
\* ready
C20_Witness ==
    /\ pc = "delete_stale"
    /\ scan.smi = "rc1"
    /\ Len(channels) = 1
    /\ Len(probed) = 2
    /\ \E p \in DOMAIN pod_list : ~k8s_pod_ready(pod_list[p]) /\ pod_list[p].containerStatuses.has

----------------------------------------------------------------------------
(* C21 *)

\* the nodes the registered GpuContainers run on
ContainerNodes == {gpu_containers[g].node_name : g \in DOMAIN gpu_containers}

\* C21: no node gets a second probe pod and no probe pod is made for a node
\* that has no registered GpuContainer; a run that ends without a fatal error
\* has created one probe pod for each node of the registered GpuContainers,
\* as many pods as there are such nodes
C21_OneProbePerNode ==
    /\ \A i, j \in DOMAIN created : created[i] = created[j] => i = j
    /\ Range(created) \subseteq ContainerNodes
    /\ pc = "done" /\ pending = "none" =>
            /\ Range(created) = ContainerNodes
            /\ Len(created) = Cardinality(ContainerNodes)

\* C21, the case: three GpuContainers on two nodes, and a run that has ended
\* without a fatal error after two probe pods
C21_Witness ==
    /\ pc = "done"
    /\ pending = "none"
    /\ Len(gpu_containers) = 3
    /\ Cardinality(ContainerNodes) = 2
    /\ Len(created) = 2

----------------------------------------------------------------------------
(* C22 *)

\* a line the first pass reads to the end of its fields whose first NSpid
\* entry is not the PID of its /proc path
MismatchedLine(line) ==
    /\ Len(line) = 4
    /\ line[1].dir = "/proc/" /\ IsInt(line[1].name)
    /\ line[3].label = "NSpid:"
    /\ line[3].vals # <<>>
    /\ \A v \in DOMAIN line[3].vals : IsInt(line[3].vals[v])
    /\ IntOf(line[1].name) # IntOf(line[3].vals[1])

MatchedLine(line) == ~MismatchedLine(line)

\* C22: the passes make of a dump what they make of the dump without its
\* lines whose first NSpid entry differs from the PID of the path, and end as
\* they end on it; after a pass the PID of the path of such a line is the
\* host PID of no process, and a container whose key is carried by such
\* lines only has no PID namespace
C22_MismatchDropped ==
    /\ [][pc = "walk" /\ last' \in {Called("walk", "rc0"), Called("walk", "pass_raise")} =>
            LET kept == HostPass(SelectSeq(stdout', MatchedLine), gpu_containers_map,
                                 gpu_containers)
            IN /\ gpu_containers' = kept.gcs
               /\ kept.raised <=> last' = Called("walk", "pass_raise")]_vars
    /\ [](last = Called("walk", "rc0") =>
            \A i \in DOMAIN stdout : MismatchedLine(stdout[i]) =>
                /\ \A p \in Processes : p.host_pid # IntOf(stdout[i][1].name)
                /\ \A key \in DOMAIN gpu_containers_map :
                        /\ \E w \in DOMAIN stdout[i][4] : stdout[i][4][w] = key
                        /\ MarkerRecords(stdout, key) = {}
                        => gpu_containers[gpu_containers_map[key]].host_pid_ns = NoStr)

\* C22, the case: the dump begins with a line of PID 8765 whose NSpid is
\* 4321 8 and whose command line carries the key of the first container; the
\* container has no PID namespace, no process has host PID 8765, and the
\* lines after it have given a process of the other container its host PID
C22_Witness ==
    /\ last = Called("walk", "rc0")
    /\ Len(stdout) = 3
    /\ MismatchedLine(stdout[1])
    /\ \E w \in DOMAIN stdout[1][4] : stdout[1][4][w] = CorrKey(1)
    /\ gpu_containers[gpu_containers_map[CorrKey(1)]].host_pid_ns = NoStr
    /\ \A p \in Processes : p.host_pid # 8765
    /\ \E p \in Processes : p.host_pid = 4321

----------------------------------------------------------------------------
(* C23 *)

\* C23: the walk is next only when the last status read of the node's probe
\* pod has returned Running or Failed; after a read that has returned Pending
\* the run is still in the status loop of the same pod, with no output of a
\* walk, no channel terminated and nothing on its way through the finally
\* block; and however many reads have returned Pending, the next one can
\* return Pending and leave the run in the loop
C23_WalkAfterPhase ==
    /\ pc = "walk" => last \in {Called("read", "Running"), Called("read", "Failed")}
    /\ last.call = "walk" => pc \in {"delete_probe", "cleanup", "done"}
    /\ last = Called("read", "Pending") =>
            /\ pc = "poll"
            /\ polls >= 1
            /\ pending = "none"
            /\ stdout = <<>>
            /\ clean_i = 1
            /\ probe_pods = <<node_pod_name>>
            /\ Len(created) = node_i
    /\ pc = "poll" => ENABLED (NodePoll /\ last' = Called("read", "Pending") /\ pc' = "poll")

\* C23, the case: the status read of the first of two nodes has returned
\* Pending as often as the model counts, and the run is in the status loop
C23_Witness ==
    /\ last = Called("read", "Pending")
    /\ polls = MaxPolls
    /\ pc = "poll"
    /\ node_i = 1
    /\ Len(gpu_node_to_containers_map) = 2

----------------------------------------------------------------------------
(* C24 *)

\* C24: no step taken after the scan changes gpu_containers_map or
\* gpu_node_to_containers_map: their keys and what the keys are bound to stay
\* as the scan has left them until the process has ended
C24_MapsUnchanged ==
    [][pc # "scan" =>
            /\ gpu_containers_map' = gpu_containers_map
            /\ gpu_node_to_containers_map' = gpu_node_to_containers_map]_vars

\* C24, the case: a run over two nodes and three keys has ended, and its
\* passes have written a host PID into a GpuContainer the maps lead to
C24_Witness ==
    /\ pc = "done"
    /\ node_i = 2
    /\ Cardinality(DOMAIN gpu_containers_map) = 3
    /\ Len(gpu_node_to_containers_map) = 2
    /\ \E key \in DOMAIN gpu_containers_map :
            \E p \in Range(gpu_containers[gpu_containers_map[key]].processes) :
                p.host_pid # NoPid

----------------------------------------------------------------------------
(* C25 *)

\* C25: a turn of the termination loop, whether its write or its reap raises
\* or not, is followed by the turn of the next channel: it moves the loop on
\* by one channel and changes neither what travels through the finally block
\* nor the GpuContainers; so at the end of the run every channel has had its
\* attempt, and the exit status and the table are what the run up to the
\* finally block has made them
C25_CleanupGoesOn ==
    /\ [][pc = "cleanup" /\ clean_i' # clean_i =>
            /\ clean_i' = clean_i + 1
            /\ channels'[exec_processes[clean_i].resp].tries =
                    channels[exec_processes[clean_i].resp].tries + 1
            /\ \A i \in DOMAIN channels :
                    i # exec_processes[clean_i].resp => channels'[i] = channels[i]
            /\ pc' = "cleanup"
            /\ pending' = pending
            /\ gpu_containers' = gpu_containers
            /\ exit_status' = exit_status]_vars
    /\ [](pc = "done" =>
            /\ \A i \in DOMAIN exec_processes : channels[exec_processes[i].resp].tries = 1
            /\ exit_status = IF pending = "none" THEN 0 ELSE 1
            /\ table = IF pending = "none" THEN TableRows(gpu_containers, 1, 1) ELSE <<>>)

\* C25, the case: the write to the first channel has raised, the second
\* channel has been written to and reaped all the same, and the run has ended
\* with status 0 and its table
C25_Witness ==
    /\ pc = "done"
    /\ Len(channels) >= 2
    /\ channels[1].tries = 1 /\ channels[1].writes = 0 /\ channels[1].open
    /\ channels[2].tries = 1 /\ channels[2].ends = 1 /\ ~channels[2].open
    /\ pending = "none"
    /\ exit_status = 0
    /\ table # <<>>

----------------------------------------------------------------------------
(* C26 *)

\* C26: at most one probe pod of this run exists at any time, and it is the
\* pod of the node created last; a probe pod comes into being only when none
\* of this run exists, nothing is on its way through the finally block and
\* the pods of all the nodes before have been created
C26_AtMostOneProbePod ==
    /\ [](/\ Len(probe_pods) <= 1
          /\ probe_pods # <<>> =>
                /\ probe_pods = <<node_pod_name>>
                /\ created # <<>>
                /\ node_pod_name[3] = created[Len(created)])
    /\ [][Len(created') > Len(created) =>
            /\ probe_pods = <<>>
            /\ probe_pods' = <<node_pod_name>>
            /\ pending = "none" /\ pending' = "none"
            /\ Len(created) = node_i - 1
            /\ node_i > 1 => last # Called("delete_probe", "500")]_vars

\* C26, the case: the probe pod of the second node exists, and that of the
\* first node, created before it, does not
C26_Witness ==
    /\ node_i = 2
    /\ created = <<"n1", "n2">>
    /\ probe_pods = <<ProbePodName("r1", "n2")>>
    /\ pc = "walk"

----------------------------------------------------------------------------
(* C27 *)

\* C27: a walk that exits non-zero leaves every GpuContainer as it was and
\* nothing on its way through the finally block, and the delete of the probe
\* pod is next; when that delete has returned the pod is gone and the loop is
\* at the next node, or at its end after the last one
C27_FailedWalkGoesOn ==
    /\ [](last = Called("walk", "rc1") => pc = "delete_probe" /\ pending = "none")
    /\ [][pc = "walk" /\ last' = Called("walk", "rc1") =>
            /\ gpu_containers' = gpu_containers
            /\ pc' = "delete_probe"
            /\ pending' = "none"
            /\ node_i' = node_i]_vars
    /\ [][last = Called("walk", "rc1") /\ last' = Called("delete_probe", "200") =>
            /\ probe_pods' = <<>>
            /\ pending' = "none"
            /\ gpu_containers' = gpu_containers
            /\ IF node_i < Len(gpu_node_to_containers_map)
               THEN node_i' = node_i + 1 /\ pc' = "delete_stale"
               ELSE node_i' = node_i /\ pc' = "cleanup"]_vars

\* C27, the case: the walk on the first node has exited non-zero, so the
\* processes of its container, whose channel is open, have no host PID; the
\* second node has been probed after it and a process there has its host PID
C27_Witness ==
    /\ node_i = 2
    /\ last = Called("walk", "rc0")
    /\ \E g \in DOMAIN gpu_containers :
            /\ gpu_containers[g].node_name = gpu_node_to_containers_map[1].node
            /\ HasChannel(gpu_containers[g])
            /\ gpu_containers[g].processes # <<>>
            /\ \A p \in Range(gpu_containers[g].processes) : p.host_pid = NoPid
    /\ \E g \in DOMAIN gpu_containers :
            /\ gpu_containers[g].node_name = CurrentNode
            /\ \E p \in Range(gpu_containers[g].processes) : p.host_pid # NoPid

====
